---------------------------- MODULE Spec2Model ----------------------------
(***************************************************************************)
(* Wa-Tor step-transition engine of KirubelCode/WaTor-Project.             *)
(*                                                                         *)
(* Two step functions are modelled, each from its source:                  *)
(*   - the row-partition step  MoveEntitiesWithThreads (src/main),         *)
(*   - the message-passing step MoveEntitiesConcurrent (src/wat-or/main).  *)
(*                                                                         *)
(* An entity is a Go pointer to a Fish or Shark; a grid cell is an interface*)
(* value, i.e. two machine words: the dynamic type and the data pointer.   *)
(* The objects live in `heap`; the step functions change their counters in *)
(* place and copy only the pointers into the new grid.                     *)
(***************************************************************************)
EXTENDS Integers, Sequences, FiniteSets, TLC

\* ------------------------------------------------------------------ bounds
MaxN == 3           \* largest grid side explored
MaxEntities == 2    \* most entities on the initial grid
MaxBreed == 2       \* largest fishBreed / sharkBreed explored
MaxEnergy == 2      \* largest starveEnergy / shark energy explored
MaxThreads == 2     \* largest thread count explored
MaxChronons == 1    \* chronons run from the initial grid
MaxWrapN == 5       \* largest grid side whose neighbour coordinates are computed
MaxPlaced == 2      \* largest numFish / numShark handed to a placement
BandN == 4          \* grid side of the run with a row out of a thread's reach
BandThreads == 3    \* its thread count
LongN == 2          \* grid side of the runs over several chronons
MaxSteps == 4       \* chronons of those runs

\* ---------------------------------------------------------- program constants
InitialEnergy == 4  \* &Shark{Energy: 4} of Initialise

VARIABLES
    Size,         \* Grid.Size
    fishBreed,    \* parameter fishBreed
    sharkBreed,   \* parameter sharkBreed
    starveEnergy, \* parameter starveEnergy
    threads,      \* parameter threads (row-partition step)
    strategy,     \* which program runs: "row" (src/main) or "msg" (src/wat-or/main)
    Cells,        \* g.Cells: the current grid
    heap,         \* the Fish and Shark objects the cells point to
    newGrid,      \* newGrid.Cells: the grid being built
    wk,           \* the goroutines of the step: range, cursor, position in the code
    mainpc,       \* position of the calling goroutine
    wg,           \* sync.WaitGroup counter
    moveChannel,  \* buffered channel of Move values (message-passing step)
    closed,       \* whether moveChannel has been closed
    chronon,      \* chronons completed
    gStart,       \* history: g.Cells when the running/last chronon started
    heapStart,    \* history: the heap when the running/last chronon started
    writes,       \* history: the cell writes issued in the running/last chronon
    starved,      \* history: cells whose shark starved in the running/last chronon
    visits,       \* history: how often each cell's entity was handed to the rule
    sent,         \* history: the Move values sent in the running/last chronon, in order
    stepCount,    \* bound of main's loop over the chronons
    unfed,        \* history: per shark in g.Cells, the chronons it has gone without feeding
    numFish,      \* parameter numFish of Initialise / initializeGridConcurrently
    numShark,     \* parameter numSharks / numShark of the same
    placed,       \* Initialise: entities placed so far (both loops' i)
    cell,         \* a cell (x, y) handed to a neighbourhood scan
    scanned,      \* the coordinates that scan has computed so far, in direction order
    grid0,        \* `grid` of the first program (main.go of 2024-12-03): [][]Cell
    placer,       \* its two placing goroutines: loop counter, position in the code, cell picked
    cursor,       \* updateFish: the cell its loops have reached
    timesMoved    \* history: how often updateFish has moved each fish

config == <<Size, fishBreed, sharkBreed, starveEnergy, threads, strategy, stepCount>>
hist == <<gStart, heapStart, writes, starved, visits, sent>>

\* The state of the step engine, of Initialise, of a neighbourhood scan on its
\* own, and of the first program.
engine == <<config, Cells, heap, newGrid, wk, mainpc, wg, moveChannel, closed,
            chronon, hist, unfed>>
setup == <<numFish, numShark, placed>>
probe == <<cell, scanned>>
early == <<grid0, placer, cursor, timesMoved>>
aside == <<setup, probe, early>>
vars == <<Size, fishBreed, sharkBreed, starveEnergy, threads, strategy, Cells,
          heap, newGrid, wk, mainpc, wg, moveChannel, closed, chronon,
          gStart, heapStart, writes, starved, visits, sent, stepCount, unfed,
          numFish, numShark, placed, cell, scanned, grid0, placer, cursor, timesMoved>>

\* ------------------------------------------------------------ data model
\* A nil interface value: no dynamic type, no data pointer.
Nil == [typ |-> "nil", ptr |-> 0]

\* (-1, -1): "not found" of findEmptyAdjacent / findNearestFish.
NoPos == <<-1, -1>>

\* No data-word store pending.
NoPend == [at |-> NoPos, ptr |-> 0]

Pos(n) == (0 .. n - 1) \X (0 .. n - 1)

\* Row-major index of a cell and its inverse (loop order x outer, y inner).
Idx(p) == p[1] * Size + p[2]
PosOf(i) == <<i \div Size, i % Size>>

\* A new grid that starts as a copy of the current one.
NewGridCopy(n) == Cells

\* NewGrid(size): every cell nil.
NewGrid(n) == [p \in Pos(n) |-> Nil]

\* &Fish{} and &Shark{Energy: e}.  A Fish object has no Energy field; the
\* record keeps 0 there and well-typed code never reads it.
\* A fish whose breed counter does not start at 0.
AgedFish == [obj |-> "Fish", BreedCounter |-> 1, Energy |-> 0]

NewFish == [obj |-> "Fish", BreedCounter |-> 0, Energy |-> 0]
NewShark(e) == [obj |-> "Shark", BreedCounter |-> 0, Energy |-> e]

\* The offspring stored is the parent object itself, not a new one.
ParentPtr(p) == Cells[p].ptr

\* A pointer never handed out before: offspring born in chronon c at origin
\* cell p.  Initial entities use 1 .. Size*Size.
FreshPtr(p) == (chronon + 1) * Size * Size + Idx(p) + 1

\* CountEntities: the Fish and Shark type assertions on every cell.
CountFish(cells) == Cardinality({p \in DOMAIN cells : cells[p].typ = "Fish"})
CountSharks(cells) == Cardinality({p \in DOMAIN cells : cells[p].typ = "Shark"})
CountEntities(cells) == <<CountFish(cells), CountSharks(cells)>>

\* ----------------------------------------------------- neighbourhood scan
\* The first direction reaching two rows up instead of one.
directionsTwoNorth == <<<<-2, 0>>, <<1, 0>>, <<0, -1>>, <<0, 1>>>>

\* directions: North, South, West, East.
directions == <<<<-1, 0>>, <<1, 0>>, <<0, -1>>, <<0, 1>>>>

\* The orders rand.Shuffle can leave the four directions in.
Perms ==
    {<<1, 2, 3, 4>>, <<1, 2, 4, 3>>, <<1, 3, 2, 4>>, <<1, 3, 4, 2>>,
     <<1, 4, 2, 3>>, <<1, 4, 3, 2>>, <<2, 1, 3, 4>>, <<2, 1, 4, 3>>,
     <<2, 3, 1, 4>>, <<2, 3, 4, 1>>, <<2, 4, 1, 3>>, <<2, 4, 3, 1>>,
     <<3, 1, 2, 4>>, <<3, 1, 4, 2>>, <<3, 2, 1, 4>>, <<3, 2, 4, 1>>,
     <<3, 4, 1, 2>>, <<3, 4, 2, 1>>, <<4, 1, 2, 3>>, <<4, 1, 3, 2>>,
     <<4, 2, 1, 3>>, <<4, 2, 3, 1>>, <<4, 3, 1, 2>>, <<4, 3, 2, 1>>}

\* Go's % truncates towards zero: the remainder has the sign of the dividend.
GoRem(a, n) == IF a >= 0 THEN a % n ELSE -((-a) % n)

\* The wrap with "+ g.Size" left out: (x + dir.dx) % g.Size.
WrapNoSize(p, d) == <<GoRem(p[1] + d[1], Size), GoRem(p[2] + d[2], Size)>>

\* (x + dir.dx + g.Size) % g.Size, (y + dir.dy + g.Size) % g.Size
Wrap(p, d) == <<(p[1] + d[1] + Size) % Size, (p[2] + d[2] + Size) % Size>>

\* for _, dir := range directions { ... return newX, newY } return -1, -1:
\* the first direction, in the shuffled order, whose cell satisfies the test.
FirstMatch(p, perm, Test(_)) ==
    IF Test(Wrap(p, directions[perm[1]])) THEN Wrap(p, directions[perm[1]])
    ELSE IF Test(Wrap(p, directions[perm[2]])) THEN Wrap(p, directions[perm[2]])
    ELSE IF Test(Wrap(p, directions[perm[3]])) THEN Wrap(p, directions[perm[3]])
    ELSE IF Test(Wrap(p, directions[perm[4]])) THEN Wrap(p, directions[perm[4]])
    ELSE NoPos

IsEmptyCell(q) == Cells[q].typ = "nil"
IsFishCell(q) == Cells[q].typ = "Fish"

\* The first neighbour in the shuffled order, whatever it holds.
findFirstAdjacent(p, perm) == Wrap(p, directions[perm[1]])

\* findEmptyAdjacent(x, y) under one shuffle; reads g.Cells only.
findEmptyAdjacent(p, perm) == FirstMatch(p, perm, IsEmptyCell)

\* A scan for fish that finds none.
findNoFish(p, perm) == NoPos

\* findNearestFish(x, y) under one shuffle; reads g.Cells only.
findNearestFish(p, perm) == FirstMatch(p, perm, IsFishCell)

\* newX != -1 && newY != -1
Found(q) == q[1] # -1 /\ q[2] # -1

\* A fish that never leaves its cell.
FishStays(p) == {p}

\* Destination of a fish: an empty neighbour, else its own cell.
FishTargets(p) ==
    {LET q == findEmptyAdjacent(p, perm) IN IF Found(q) THEN q ELSE p :
        perm \in Perms}

\* Destination of a surviving shark: a neighbouring fish; else an empty
\* neighbour (second, independent shuffle); else its own cell.
SharkTargets(p) ==
    LET fish == {findNearestFish(p, perm) : perm \in Perms}
    IN  IF \E q \in fish : Found(q) THEN {q \in fish : Found(q)}
        ELSE FishTargets(p)

\* Whether the shark at p feeds (findNearestFish found a fish).
Feeds(p) == \E perm \in Perms : Found(findNearestFish(p, perm))


\* ------------------------------------------------------------ initial grid
\* The counters an entity can carry at a chronon boundary.
Variants(fb, sb) ==
    {[obj |-> "Fish", BreedCounter |-> b, Energy |-> 0] : b \in 0 .. fb - 1}
    \cup {[obj |-> "Shark", BreedCounter |-> b, Energy |-> e] :
            b \in 0 .. sb - 1, e \in 1 .. MaxEnergy}

\* The sharks of a grid, by object.
SharkPtrs(cells) == {cells[p].ptr : p \in {q \in DOMAIN cells : cells[q].typ = "Shark"}}

\* The Energy field of object i as stored (0 where the object has none).
EnergyOf(h, i) == IF i \in DOMAIN h THEN h[i].Energy ELSE 0

\* No shark has gone a chronon without feeding yet: n chronons unfed since its
\* energy was e.
Unfed0(cells, h) == [i \in SharkPtrs(cells) |-> [n |-> 0, e |-> EnergyOf(h, i)]]

\* A grid at a chronon boundary: at most one entity per cell, every entity its
\* own object (the pointer of the entity first placed at cell p is Idx(p)+1).
\* main then runs `steps` chronons on it.  With `fresh` the entities are as
\* Initialise makes them, otherwise they carry any counters in range.
Boundary(sizes, thr, steps, fresh) ==
    /\ Size \in sizes
    /\ fishBreed \in 1 .. MaxBreed
    /\ sharkBreed \in 1 .. MaxBreed
    /\ starveEnergy \in 1 .. MaxEnergy
    /\ strategy \in {"row", "msg"}
    /\ threads \in IF strategy = "row" THEN thr ELSE {1}
    /\ \E occ \in SUBSET Pos(Size) :
         /\ Cardinality(occ) <= MaxEntities
         /\ \E f \in [occ -> IF fresh THEN {NewFish, NewShark(InitialEnergy)}
                                ELSE Variants(fishBreed, sharkBreed)] :
              /\ Cells = [p \in Pos(Size) |->
                            IF p \in occ THEN [typ |-> f[p].obj, ptr |-> Idx(p) + 1]
                            ELSE Nil]
              /\ heap = [i \in {Idx(p) + 1 : p \in occ} |-> f[PosOf(i - 1)]]
    /\ newGrid = NewGrid(Size)
    /\ wk = <<>>
    /\ mainpc = "idle"
    /\ wg = 0
    /\ moveChannel = <<>>
    /\ closed = FALSE
    /\ chronon = 0
    /\ gStart = Cells
    /\ heapStart = heap
    /\ writes = {}
    /\ starved = {}
    /\ visits = [p \in Pos(Size) |-> 0]
    /\ sent = <<>>
    /\ stepCount = steps
    /\ unfed = Unfed0(Cells, heap)
    /\ numFish = CountFish(Cells)
    /\ numShark = CountSharks(Cells)
    /\ placed = numFish + numShark
    /\ cell = NoPos
    /\ scanned = <<>>
    /\ grid0 = <<>>
    /\ placer = <<>>
    /\ cursor = 0
    /\ timesMoved = <<>>

Init == Boundary(1 .. MaxN, 1 .. MaxThreads, MaxChronons, FALSE)

\* ------------------------------------------------ row-partition step (src/main)
\* The x/y loops skip the cells their type assertion rejects: the cursor rests
\* on the next cell of [i, e) whose dynamic type is in T, or on e.  (g.Cells is
\* only read here; skipping is invisible to the other goroutines.)
\* The same loops started one cell late: the first cell of the range is skipped.
NextTypFromSecond(i, e, T) ==
    IF \E j \in i + 1 .. e - 1 : Cells[PosOf(j)].typ \in T
    THEN CHOOSE j \in i + 1 .. e - 1 :
            /\ Cells[PosOf(j)].typ \in T
            /\ \A k \in i + 1 .. j - 1 : Cells[PosOf(k)].typ \notin T
    ELSE IF i <= e THEN e ELSE i

NextTyp(i, e, T) ==
    IF \E j \in i .. e - 1 : Cells[PosOf(j)].typ \in T
    THEN CHOOSE j \in i .. e - 1 :
            /\ Cells[PosOf(j)].typ \in T
            /\ \A k \in i .. j - 1 : Cells[PosOf(k)].typ \notin T
    ELSE IF i <= e THEN e ELSE i

\* processSection: fish and sharks.
NextOcc(i, e) == NextTyp(i, e, {"Fish", "Shark"})

\* startRow and endRow of thread i.
rowsPerThread == Size \div threads
startRow(i) == i * rowsPerThread
\* endRow without the remainder handed to the last thread.
endRowNoRemainder(i) == startRow(i) + rowsPerThread

endRow(i) == IF i = threads - 1 THEN Size ELSE startRow(i) + rowsPerThread

\* A goroutine that has run processSection to its end has also run its
\* deferred wg.Done(): the return and the Done are one step with the last
\* thing the goroutine does.
Finished(c, last, k, pd) == k = "scan" /\ pd = NoPend /\ c >= last

\* MoveEntitiesWithThreads up to wg.Wait(): allocate newGrid, start one
\* goroutine per thread on its row range.  (A goroutine whose range holds no
\* entity returns without touching anything; it is started as done.)
MoveEntitiesWithThreads ==
    /\ strategy = "row"
    /\ mainpc = "idle"
    /\ chronon < stepCount
    /\ newGrid' = NewGrid(Size)
    /\ LET first(i) == NextOcc(startRow(i) * Size, endRow(i) * Size)
           idle(i) == Finished(first(i), endRow(i) * Size, "scan", NoPend)
       IN  /\ wk' = [i \in 0 .. threads - 1 |->
                       [start |-> startRow(i), end |-> endRow(i), cur |-> first(i),
                        pc |-> IF idle(i) THEN "done" ELSE "scan", pend |-> NoPend]]
           /\ wg' = Cardinality({i \in 0 .. threads - 1 : ~idle(i)})
    /\ mainpc' = "wait"
    /\ gStart' = Cells
    /\ heapStart' = heap
    /\ writes' = {}
    /\ starved' = {}
    /\ visits' = [p \in Pos(Size) |-> 0]
    /\ sent' = <<>>
    /\ UNCHANGED <<config, aside, unfed, Cells, heap, moveChannel, closed, chronon>>

\* The cell the cursor of goroutine w rests on.
At(w) == PosOf(wk[w].cur)
Last(w) == wk[w].end * Size

\* A goroutine of the row-partition step that may take its next step.
Running(w) ==
    /\ strategy = "row"
    /\ w \in DOMAIN wk
    /\ wk[w].pc # "done"
    /\ wk[w].pend = NoPend

\* The cursor moved two cells on: the next cell is passed over.
AdvanceTwo(w) == NextOcc(wk[w].cur + 2, Last(w))

\* The cursor after the cell it rests on.
Advance(w) == NextOcc(wk[w].cur + 1, Last(w))

\* An interface store newGrid.Cells[t] = entity is two word stores: the type
\* word, then the data word.  The goroutines share newGrid without a lock, so
\* while another goroutine runs (wg > 1) its stores can fall between the two
\* and the data word is stored in a step of its own (StoreData).  The last
\* goroutine running stores both words in one step.
Alone == wg = 1
StoreIface(grid, t, typ, ptr) ==
    IF Alone THEN [grid EXCEPT ![t] = [typ |-> typ, ptr |-> ptr]]
    ELSE [grid EXCEPT ![t].typ = typ]
Pending(t, ptr) == IF Alone THEN NoPend ELSE [at |-> t, ptr |-> ptr]

\* The goroutine after a step that leaves its cursor at c, its code position
\* at k and its pending store pd.
Settle(w, c, k, pd) ==
    [wk EXCEPT ![w].cur = c, ![w].pend = pd,
               ![w].pc = IF Finished(c, Last(w), k, pd) THEN "done" ELSE k]
Released(w, c, k, pd) == IF Finished(c, Last(w), k, pd) THEN wg - 1 ELSE wg

\* processFish up to its first store: pick the destination, store
\* newGrid.Cells[dest] = fish, fish.BreedCounter++ (on the object itself).
processFish(w) ==
    /\ Running(w)
    /\ wk[w].pc = "scan"
    /\ Cells[At(w)].typ = "Fish"
    /\ LET p == At(w)
           e == Cells[p].ptr
           bc == heap[e].BreedCounter + 1
           k == IF bc >= fishBreed THEN "breed" ELSE "scan"
           c == IF bc >= fishBreed THEN wk[w].cur ELSE Advance(w)
       IN  \E t \in FishTargets(p) :
             /\ newGrid' = StoreIface(newGrid, t, "Fish", e)
             /\ heap' = [heap EXCEPT ![e].BreedCounter = bc]
             /\ wk' = Settle(w, c, k, Pending(t, e))
             /\ wg' = Released(w, c, k, Pending(t, e))
             /\ writes' = writes \cup {[by |-> w, from |-> p, at |-> t, birth |-> FALSE]}
    /\ visits' = [visits EXCEPT ![At(w)] = @ + 1]
    /\ UNCHANGED <<config, aside, unfed, Cells, mainpc, moveChannel, closed, chronon,
                   gStart, heapStart, starved, sent>>

\* The reproduction branch storing the offspring into g.Cells, the grid being
\* read, instead of newGrid.
processFishBreedInPlace(w) ==
    /\ Running(w)
    /\ wk[w].pc = "breed"
    /\ Cells[At(w)].typ = "Fish"
    /\ LET p == At(w)
           e == Cells[p].ptr
           n == FreshPtr(p)
       IN  /\ Cells' = [Cells EXCEPT ![p] = [typ |-> "Fish", ptr |-> n]]
           /\ heap' = [i \in DOMAIN heap \cup {n} |->
                         IF i = n THEN NewFish
                         ELSE IF i = e THEN [heap[e] EXCEPT !.BreedCounter = 0]
                         ELSE heap[i]]
           /\ wk' = Settle(w, Advance(w), "scan", Pending(p, n))
           /\ wg' = Released(w, Advance(w), "scan", Pending(p, n))
           /\ writes' = writes \cup {[by |-> w, from |-> p, at |-> p, birth |-> TRUE]}
    /\ UNCHANGED <<config, aside, unfed, newGrid, mainpc, moveChannel, closed, chronon,
                   gStart, heapStart, starved, visits, sent>>

\* processFish, the reproduction branch: newGrid.Cells[x][y] = &Fish{} and
\* fish.BreedCounter = 0.
processFishBreed(w) ==
    /\ Running(w)
    /\ wk[w].pc = "breed"
    /\ Cells[At(w)].typ = "Fish"
    /\ LET p == At(w)
           e == Cells[p].ptr
           n == FreshPtr(p)
       IN  /\ newGrid' = StoreIface(newGrid, p, "Fish", n)
           /\ heap' = [i \in DOMAIN heap \cup {n} |->
                         IF i = n THEN NewFish
                         ELSE IF i = e THEN [heap[e] EXCEPT !.BreedCounter = 0]
                         ELSE heap[i]]
           /\ wk' = Settle(w, Advance(w), "scan", Pending(p, n))
           /\ wg' = Released(w, Advance(w), "scan", Pending(p, n))
           /\ writes' = writes \cup {[by |-> w, from |-> p, at |-> p, birth |-> TRUE]}
    /\ UNCHANGED <<config, aside, unfed, Cells, mainpc, moveChannel, closed, chronon,
                   gStart, heapStart, starved, visits, sent>>

\* The value shark.Energy reads.  Through a Shark-typed cell whose data word
\* points at a Fish object (a torn interface store, see StoreData) the field
\* lies outside the object and the read yields whatever is there.
EnergyRead(e) == IF heap[e].obj = "Shark" THEN {heap[e].Energy} ELSE 0 .. MaxEnergy

\* The starvation test passing a shark whose energy has just reached 0.
StarvesBelowZero(en) == en - 1 < 0

\* shark.Energy-- followed by  if shark.Energy <= 0, for a shark that had
\* energy en.
Starves(en) == en - 1 <= 0

\* shark.Energy assigned on a copy of the object: the object keeps its value.
SetEnergyOnCopy(o, v) == o

\* Writing shark.Energy: outside a Fish object the store does not change it.
SetEnergy(o, v) == IF o.obj = "Shark" THEN [o EXCEPT !.Energy = v] ELSE o

\* processShark up to its first store: Energy--, the starvation return, the
\* two scans, newGrid.Cells[dest] = shark, the energy reset after feeding and
\* BreedCounter++.
processShark(w) ==
    /\ Running(w)
    /\ wk[w].pc = "scan"
    /\ Cells[At(w)].typ = "Shark"
    /\ LET p == At(w)
           e == Cells[p].ptr
           bc == heap[e].BreedCounter + 1
           k == IF bc >= sharkBreed THEN "breed" ELSE "scan"
           c == IF bc >= sharkBreed THEN wk[w].cur ELSE Advance(w)
           fed == Feeds(p)
       IN  \E en \in EnergyRead(e) :
             IF Starves(en)
             THEN /\ heap' = [heap EXCEPT ![e] = SetEnergy(@, en - 1)]
                  /\ wk' = Settle(w, Advance(w), "scan", NoPend)
                  /\ wg' = Released(w, Advance(w), "scan", NoPend)
                  /\ starved' = starved \cup {p}
                  /\ UNCHANGED <<newGrid, writes>>
             ELSE \E t \in SharkTargets(p) :
                  /\ newGrid' = StoreIface(newGrid, t, "Shark", e)
                  /\ heap' = [heap EXCEPT ![e] =
                                [SetEnergy(@, IF fed THEN starveEnergy ELSE en - 1)
                                   EXCEPT !.BreedCounter = bc]]
                  /\ wk' = Settle(w, c, k, Pending(t, e))
                  /\ wg' = Released(w, c, k, Pending(t, e))
                  /\ writes' = writes \cup {[by |-> w, from |-> p, at |-> t, birth |-> FALSE]}
                  /\ UNCHANGED starved
    /\ visits' = [visits EXCEPT ![At(w)] = @ + 1]
    /\ UNCHANGED <<config, aside, unfed, Cells, mainpc, moveChannel, closed, chronon,
                   gStart, heapStart, sent>>

\* processShark, the reproduction branch:
\* newGrid.Cells[x][y] = &Shark{Energy: starveEnergy}, shark.BreedCounter = 0.
processSharkBreed(w) ==
    /\ Running(w)
    /\ wk[w].pc = "breed"
    /\ Cells[At(w)].typ = "Shark"
    /\ LET p == At(w)
           e == Cells[p].ptr
           n == FreshPtr(p)
       IN  /\ newGrid' = StoreIface(newGrid, p, "Shark", n)
           /\ heap' = [i \in DOMAIN heap \cup {n} |->
                         IF i = n THEN NewShark(starveEnergy)
                         ELSE IF i = e THEN [heap[e] EXCEPT !.BreedCounter = 0]
                         ELSE heap[i]]
           /\ wk' = Settle(w, Advance(w), "scan", Pending(p, n))
           /\ wg' = Released(w, Advance(w), "scan", Pending(p, n))
           /\ writes' = writes \cup {[by |-> w, from |-> p, at |-> p, birth |-> TRUE]}
    /\ UNCHANGED <<config, aside, unfed, Cells, mainpc, moveChannel, closed, chronon,
                   gStart, heapStart, starved, visits, sent>>

\* The data word of an interface store begun while another goroutine ran.
StoreData(w) ==
    /\ strategy = "row"
    /\ w \in DOMAIN wk
    /\ wk[w].pend # NoPend
    /\ newGrid' = [newGrid EXCEPT ![wk[w].pend.at].ptr = wk[w].pend.ptr]
    /\ wk' = Settle(w, wk[w].cur, wk[w].pc, NoPend)
    /\ wg' = Released(w, wk[w].cur, wk[w].pc, NoPend)
    /\ UNCHANGED <<config, aside, unfed, Cells, heap, mainpc, moveChannel, closed, chronon, hist>>

\* The objects a grid still points to (the rest is garbage).
Live(cells) == {cells[p].ptr : p \in DOMAIN cells} \ {0}

\* Whether the shark object i fed in the running chronon: its move went onto a
\* cell where findNearestFish found a fish.
FedIn(i) ==
    \E r \in writes :
        /\ ~r.birth
        /\ gStart[r.from] = [typ |-> "Shark", ptr |-> i]
        /\ gStart[r.at].typ = "Fish"

\* The chronons unfed of the sharks of the grid the swap installs: one more for
\* a shark that was a shark before and did not feed, none for a shark that fed
\* or is new.
Fasting(cells, h) ==
    [i \in SharkPtrs(cells) |->
        IF i \in DOMAIN unfed /\ ~FedIn(i)
        THEN [unfed[i] EXCEPT !.n = @ + 1]
        ELSE [n |-> 0, e |-> EnergyOf(h, i)]]

\* g.Cells = newGrid.Cells with no wg.Wait() before it.
SwapRowNoWait ==
    /\ strategy = "row"
    /\ mainpc = "wait"
    /\ Cells' = newGrid
    /\ heap' = [i \in Live(newGrid) \cap DOMAIN heap |-> heap[i]]
    /\ mainpc' = "idle"
    /\ chronon' = chronon + 1
    /\ unfed' = Fasting(newGrid, heap)
    /\ UNCHANGED <<config, aside, newGrid, wk, wg, moveChannel, closed, hist>>

\* wg.Wait() returns once the counter is 0; then g.Cells = newGrid.Cells.
SwapRow ==
    /\ strategy = "row"
    /\ mainpc = "wait"
    /\ wg = 0
    /\ Cells' = newGrid
    /\ heap' = [i \in Live(newGrid) \cap DOMAIN heap |-> heap[i]]
    /\ mainpc' = "idle"
    /\ chronon' = chronon + 1
    /\ unfed' = Fasting(newGrid, heap)
    /\ UNCHANGED <<config, aside, newGrid, wk, wg, moveChannel, closed, hist>>

\* ------------------------------------ message-passing step (src/wat-or/main)
\* This step runs one loop at a time: moveFish in the caller, then
\* moveSharksConcurrent in the one goroutine the caller starts and waits for.
\* wk[0] holds the cursor of the loop that is running.

\* MoveEntitiesConcurrent up to the call of moveFish: newGrid := NewGrid.
MoveEntitiesConcurrent ==
    /\ strategy = "msg"
    /\ mainpc = "idle"
    /\ chronon < stepCount
    /\ newGrid' = NewGrid(Size)
    /\ wk' = [i \in {0} |->
                [start |-> 0, end |-> Size, cur |-> NextTyp(0, Size * Size, {"Fish"}),
                 pc |-> "fish", pend |-> NoPend]]
    /\ mainpc' = "fish"
    /\ moveChannel' = <<>>
    /\ closed' = FALSE
    /\ gStart' = Cells
    /\ heapStart' = heap
    /\ writes' = {}
    /\ starved' = {}
    /\ visits' = [p \in Pos(Size) |-> 0]
    /\ sent' = <<>>
    /\ UNCHANGED <<config, aside, unfed, Cells, heap, wg, chronon>>

\* One iteration of moveFish that finds a fish: the caller is the only
\* goroutine, both stores into newGrid and both counter updates are one step.
moveFish ==
    /\ strategy = "msg"
    /\ mainpc = "fish"
    /\ wk[0].cur < Size * Size
    /\ LET p == At(0)
           e == Cells[p].ptr
           bc == heap[e].BreedCounter + 1
           n == FreshPtr(p)
           moved(t) == [newGrid EXCEPT ![t] = [typ |-> "Fish", ptr |-> e]]
       IN  \E t \in FishTargets(p) :
             IF bc >= fishBreed
             THEN /\ newGrid' = [moved(t) EXCEPT ![p] = [typ |-> "Fish", ptr |-> n]]
                  /\ heap' = [i \in DOMAIN heap \cup {n} |->
                                IF i = n THEN NewFish
                                ELSE IF i = e THEN [heap[e] EXCEPT !.BreedCounter = 0]
                                ELSE heap[i]]
                  /\ writes' = writes \cup
                       {[by |-> 0, from |-> p, at |-> t, birth |-> FALSE],
                        [by |-> 0, from |-> p, at |-> p, birth |-> TRUE]}
             ELSE /\ newGrid' = moved(t)
                  /\ heap' = [heap EXCEPT ![e].BreedCounter = bc]
                  /\ writes' = writes \cup
                       {[by |-> 0, from |-> p, at |-> t, birth |-> FALSE]}
    /\ wk' = [wk EXCEPT ![0].cur = NextTyp(@ + 1, Size * Size, {"Fish"})]
    /\ visits' = [visits EXCEPT ![At(0)] = @ + 1]
    /\ UNCHANGED <<config, aside, unfed, Cells, mainpc, wg, moveChannel, closed, chronon,
                   gStart, heapStart, starved, sent>>

\* moveFish returned: moveChannel := make(chan Move, g.Size*g.Size), wg.Add(1),
\* go func() { ... moveSharksConcurrent ... }(), and the caller is in wg.Wait().
StartSharks ==
    /\ strategy = "msg"
    /\ mainpc = "fish"
    /\ wk[0].cur >= Size * Size
    /\ wk' = [wk EXCEPT ![0].cur = NextTyp(0, Size * Size, {"Shark"}),
                        ![0].pc = "scan"]
    /\ wg' = 1
    /\ mainpc' = "wait"
    /\ UNCHANGED <<config, aside, unfed, Cells, heap, newGrid, moveChannel, closed, chronon, hist>>

\* A send on the buffered channel proceeds only while the buffer has room;
\* nobody receives before wg.Wait() has returned.
CanSend == Len(moveChannel) < Size * Size

\* One iteration of moveSharksConcurrent that finds a shark, up to its first
\* send: Energy--, the starvation continue, the two scans, the send of the
\* move, the energy reset after feeding and BreedCounter++.
moveSharksConcurrent ==
    /\ strategy = "msg"
    /\ mainpc = "wait"
    /\ wk[0].pc = "scan"
    /\ wk[0].cur < Size * Size
    /\ LET p == At(0)
           e == Cells[p].ptr
           bc == heap[e].BreedCounter + 1
           fed == Feeds(p)
           next == NextTyp(wk[0].cur + 1, Size * Size, {"Shark"})
       IN  \E en \in EnergyRead(e) :
             IF Starves(en)
             THEN /\ heap' = [heap EXCEPT ![e] = SetEnergy(@, en - 1)]
                  /\ wk' = [wk EXCEPT ![0].cur = next]
                  /\ starved' = starved \cup {p}
                  /\ UNCHANGED <<moveChannel, writes, sent>>
             ELSE /\ CanSend
                  /\ \E t \in SharkTargets(p) :
                       /\ moveChannel' = Append(moveChannel,
                            [X |-> t[1], Y |-> t[2],
                             Entity |-> [typ |-> "Shark", ptr |-> e]])
                       /\ sent' = Append(sent,
                            [X |-> t[1], Y |-> t[2],
                             Entity |-> [typ |-> "Shark", ptr |-> e]])
                       /\ writes' = writes \cup
                            {[by |-> 0, from |-> p, at |-> t, birth |-> FALSE]}
                  /\ heap' = [heap EXCEPT ![e] =
                                [SetEnergy(@, IF fed THEN starveEnergy ELSE en - 1)
                                   EXCEPT !.BreedCounter = bc]]
                  /\ wk' = [wk EXCEPT ![0].pc = IF bc >= sharkBreed THEN "breed" ELSE "scan",
                                      ![0].cur = IF bc >= sharkBreed THEN @ ELSE next]
                  /\ UNCHANGED starved
    /\ visits' = [visits EXCEPT ![At(0)] = @ + 1]
    /\ UNCHANGED <<config, aside, unfed, Cells, newGrid, mainpc, wg, closed, chronon,
                   gStart, heapStart>>

\* moveSharksConcurrent, the reproduction branch: the send of
\* Move{x, y, &Shark{Energy: starveEnergy}} and shark.BreedCounter = 0.
moveSharksBreed ==
    /\ strategy = "msg"
    /\ mainpc = "wait"
    /\ wk[0].pc = "breed"
    /\ CanSend
    /\ LET p == At(0)
           e == Cells[p].ptr
           n == FreshPtr(p)
       IN  /\ moveChannel' = Append(moveChannel,
                [X |-> p[1], Y |-> p[2], Entity |-> [typ |-> "Shark", ptr |-> n]])
           /\ heap' = [i \in DOMAIN heap \cup {n} |->
                         IF i = n THEN NewShark(starveEnergy)
                         ELSE IF i = e THEN [heap[e] EXCEPT !.BreedCounter = 0]
                         ELSE heap[i]]
           /\ sent' = Append(sent,
                [X |-> p[1], Y |-> p[2], Entity |-> [typ |-> "Shark", ptr |-> n]])
           /\ writes' = writes \cup {[by |-> 0, from |-> p, at |-> p, birth |-> TRUE]}
    /\ wk' = [wk EXCEPT ![0].pc = "scan",
                        ![0].cur = NextTyp(@ + 1, Size * Size, {"Shark"})]
    /\ UNCHANGED <<config, aside, unfed, Cells, newGrid, mainpc, wg, closed, chronon,
                   gStart, heapStart, starved, visits>>

\* moveSharksConcurrent returned: the deferred wg.Done().
SharksDone ==
    /\ strategy = "msg"
    /\ mainpc = "wait"
    /\ wk[0].pc = "scan"
    /\ wk[0].cur >= Size * Size
    /\ wk' = [wk EXCEPT ![0].pc = "done"]
    /\ wg' = wg - 1
    /\ UNCHANGED <<config, aside, unfed, Cells, heap, newGrid, mainpc, moveChannel, closed,
                   chronon, hist>>

\* close(moveChannel) with no wg.Wait() before it.
CloseChannelNoWait ==
    /\ strategy = "msg"
    /\ mainpc = "wait"
    /\ closed' = TRUE
    /\ mainpc' = "drain"
    /\ UNCHANGED <<config, aside, unfed, Cells, heap, newGrid, wk, wg, moveChannel, chronon, hist>>

\* wg.Wait() returned: close(moveChannel).
CloseChannel ==
    /\ strategy = "msg"
    /\ mainpc = "wait"
    /\ wg = 0
    /\ closed' = TRUE
    /\ mainpc' = "drain"
    /\ UNCHANGED <<config, aside, unfed, Cells, heap, newGrid, wk, wg, moveChannel, chronon, hist>>

\* The drain storing a move only into a cell that is still empty.
ApplyMoveIfEmpty ==
    /\ strategy = "msg"
    /\ mainpc = "drain"
    /\ moveChannel # <<>>
    /\ LET move == Head(moveChannel)
       IN  newGrid' = IF newGrid[<<move.X, move.Y>>] = Nil
                      THEN [newGrid EXCEPT ![<<move.X, move.Y>>] = move.Entity]
                      ELSE newGrid
    /\ moveChannel' = Tail(moveChannel)
    /\ UNCHANGED <<config, aside, unfed, Cells, heap, wk, mainpc, wg, closed, chronon, hist>>

\* One iteration of  for move := range moveChannel:
\* newGrid.Cells[move.X][move.Y] = move.Entity.
ApplyMove ==
    /\ strategy = "msg"
    /\ mainpc = "drain"
    /\ moveChannel # <<>>
    /\ LET move == Head(moveChannel)
       IN  newGrid' = [newGrid EXCEPT ![<<move.X, move.Y>>] = move.Entity]
    /\ moveChannel' = Tail(moveChannel)
    /\ UNCHANGED <<config, aside, unfed, Cells, heap, wk, mainpc, wg, closed, chronon, hist>>

\* The range loop ends on the closed, empty channel; g.Cells = newGrid.Cells.
SwapMsg ==
    /\ strategy = "msg"
    /\ mainpc = "drain"
    /\ closed
    /\ moveChannel = <<>>
    /\ Cells' = newGrid
    /\ heap' = [i \in Live(newGrid) \cap DOMAIN heap |-> heap[i]]
    /\ mainpc' = "idle"
    /\ chronon' = chronon + 1
    /\ unfed' = Fasting(newGrid, heap)
    /\ UNCHANGED <<config, aside, newGrid, wk, wg, moveChannel, closed, hist>>

\* -------------------------------------------------------- specifications
NextRow ==
    \/ MoveEntitiesWithThreads
    \/ \E w \in 0 .. MaxThreads - 1 : processFish(w)
    \/ \E w \in 0 .. MaxThreads - 1 : processFishBreed(w)
    \/ \E w \in 0 .. MaxThreads - 1 : processShark(w)
    \/ \E w \in 0 .. MaxThreads - 1 : processSharkBreed(w)
    \/ \E w \in 0 .. MaxThreads - 1 : StoreData(w)
    \/ SwapRow

NextMsg ==
    \/ MoveEntitiesConcurrent
    \/ moveFish
    \/ StartSharks
    \/ moveSharksConcurrent
    \/ moveSharksBreed
    \/ SharksDone
    \/ CloseChannel
    \/ ApplyMove
    \/ SwapMsg

InitRow == Init /\ strategy = "row"
InitMsg == Init /\ strategy = "msg"

\* The row-partition program (src/main).
SpecRow == InitRow /\ [][NextRow]_vars

\* The message-passing program (src/wat-or/main).
SpecMsg == InitMsg /\ [][NextMsg]_vars

\* Either program.
Next == NextRow \/ NextMsg
Spec == Init /\ [][Next]_vars

\* ------------------------------------------------------- vocabulary of claims
\* A chronon has been completed and its result is the current grid.
AfterChronon == mainpc = "idle" /\ chronon > 0

\* A chronon is running: newGrid is being built from g.Cells.
InChronon == mainpc # "idle"

Total(cells) == CountFish(cells) + CountSharks(cells)

\* Entities that reproduced / sharks that starved in the running/last chronon.
Births == {r \in writes : r.birth}
Moves == {r \in writes : ~r.birth}
Reproductions == Cardinality(Births)
Starvations == Cardinality(starved)

\* The cells written in the running/last chronon.
Targets == {r.at : r \in writes}

\* The move of the entity that was at cell p.
MoveOf(p) == CHOOSE r \in Moves : r.from = p

\* The pointer of the offspring born at cell p in the last chronon.
BornAt(p) == chronon * Size * Size + Idx(p) + 1

\* ---------------------------------------------------------------------- C1
\* C1 (as claimed): under the row-partition step with two or more threads,
\* every write of a goroutine lands in a row of its own range
\* [startRow, endRow), and no cell of the new grid is written by two
\* different goroutines.
C1_WritesStayInOwnRows ==
    (strategy = "row" /\ threads >= 2) =>
        /\ \A r \in writes : wk[r.by].start <= r.at[1] /\ r.at[1] < wk[r.by].end
        /\ \A r1, r2 \in writes : r1.at = r2.at => r1.by = r2.by

C3_Scenario ==
    /\ Size = 3
    /\ gStart[<<0, 0>>].typ = "Shark"
    /\ gStart[<<0, 1>>].typ = "Fish"
    /\ Total(gStart) = 2
    /\ starveEnergy >= 2
    /\ heapStart[gStart[<<0, 0>>].ptr].Energy = starveEnergy
    /\ fishBreed > 1 /\ sharkBreed > 1
    /\ heapStart[gStart[<<0, 0>>].ptr].BreedCounter = 0
    /\ heapStart[gStart[<<0, 1>>].ptr].BreedCounter = 0

\* C3 (as claimed): in that scenario, after one chronon the shark occupies
\* (0,1) with energy starveEnergy and the fish it fed on is gone: the fish
\* count is lower by exactly 1.
C3_FedOnFishIsGone ==
    (AfterChronon /\ chronon = 1 /\ C3_Scenario) =>
        /\ Cells[<<0, 1>>] = gStart[<<0, 0>>]
        /\ heap[Cells[<<0, 1>>].ptr].Energy = starveEnergy
        /\ CountFish(Cells) = CountFish(gStart) - 1

\* ---------------------------------------------------------------------- C4
\* No write of another entity targets the cells the entity from p wrote.
Undisturbed(p) ==
    \A r \in writes : r.from # p => r.at # p /\ r.at # MoveOf(p).at

\* The kind and the object of the entity that was at p when the chronon began.
KindAt(p) == gStart[p].typ
ParentAt(p) == gStart[p].ptr

C4_WitnessMoved ==
    /\ AfterChronon
    /\ \E r \in Births : Undisturbed(r.from) /\ MoveOf(r.from).at # r.from

\* ---------------------------------------------------------------------- C5
\* The shark goroutine of the message-passing step is at a send.
AtSend ==
    /\ strategy = "msg"
    /\ mainpc = "wait"
    /\ \/ wk[0].pc = "breed"
       \/ /\ wk[0].pc = "scan"
          /\ wk[0].cur < Size * Size
          /\ \E en \in EnergyRead(Cells[At(0)].ptr) : ~Starves(en)

\* C5 (as claimed): the shark goroutine never blocks on a send: whenever it
\* is at a send the channel has room, so every chronon runs to completion.
C5_SendNeverBlocks == AtSend => CanSend

\* ---------------------------------------------------------------------- C6
\* C6 (as claimed): from a grid without sharks, the fish count after a
\* chronon is never lower than before it.
C6_FishNeverVanish ==
    (AfterChronon /\ CountSharks(gStart) = 0) =>
        CountFish(Cells) >= CountFish(gStart)

\* ---------------------------------------------------------------------- C7
\* The row-major position of a write: cells in loop order, the move of an
\* entity before its offspring.
Key(r) == 2 * Idx(r.from) + (IF r.birth THEN 1 ELSE 0)

\* What a write stores.
Stored(r) ==
    [typ |-> KindAt(r.from),
     ptr |-> IF r.birth THEN BornAt(r.from) ELSE ParentAt(r.from)]

\* The grid a sequence of stores leaves: the last store to a cell, in the
\* order K, decides it.  The destinations are those recorded in `writes`, so
\* the neighbour-order choices are the same.
LastStoreGrid(K(_)) ==
    [c \in Pos(Size) |->
        LET ws == {r \in writes : r.at = c}
        IN  IF ws = {} THEN Nil
            ELSE Stored(CHOOSE r \in ws : \A r2 \in ws : K(r2) <= K(r))]

\* The grid the chronon leaves when the goroutines of the row-partition step
\* run one after the other in thread order (an interleaving the scheduler may
\* choose, and the only one with a single thread): processSection's loops
\* store in row-major order.
RowMajorGrid == LastStoreGrid(Key)

\* The order of the stores of the message-passing step: moveFish stores for
\* every fish in row-major order, then the drain stores the sharks' messages
\* in the order they were sent (row-major order of the sharks).
MsgKey(r) == Key(r) + (IF KindAt(r.from) = "Shark" THEN 2 * Size * Size ELSE 0)

\* The grid the message-passing step leaves.
FishThenSharksGrid == LastStoreGrid(MsgKey)

\* The two closed forms are the grids the steps build (single thread).
RowStepIsRowMajor ==
    (AfterChronon /\ strategy = "row" /\ threads = 1) => Cells = RowMajorGrid
MsgStepIsFishThenSharks ==
    (AfterChronon /\ strategy = "msg") => Cells = FishThenSharksGrid

\* C7 (as claimed): with the current grid, the configuration and every
\* entity's neighbour-order choice fixed, the row-partition step with two or
\* more threads yields the same next grid under every interleaving (the one
\* the threads yield when run one after the other).
C7_SameGridUnderEveryInterleaving ==
    (AfterChronon /\ strategy = "row" /\ threads >= 2) => Cells = RowMajorGrid

\* ---------------------------------------------------------------------- C8
\* C8 (as claimed): from the same grid, with the same configuration, a single
\* worker and the same neighbour-order choice for every entity, the two steps
\* leave the same kind of entity in every cell: the grid this run's step left
\* has in every cell the kind the other step leaves there for the same
\* choices.  (Every entity's counters are updated alike by both steps, so the
\* kinds are where the grids can differ.)
C8_StrategiesLeaveSameKinds ==
    (AfterChronon /\ threads = 1) =>
        \A c \in Pos(Size) :
            Cells[c].typ = (IF strategy = "row" THEN FishThenSharksGrid[c].typ
                                               ELSE RowMajorGrid[c].typ)

\* ---------------------------------------------------------------------- C9
\* The entity at p has been processed in the running chronon.
Processed(p) == p \in starved \/ \E r \in writes : r.from = p

\* Cells of the current grid whose object is of the cell's dynamic type.
WellTyped(p) == Cells[p].typ # "nil" /\ heap[Cells[p].ptr].obj = Cells[p].typ

C10_SwapAfterAllWorkers ==
    (strategy = "row" /\ AfterChronon) =>
        /\ \A w \in DOMAIN wk : wk[w].pc = "done" /\ wk[w].pend = NoPend
        /\ wg = 0
        /\ Cells = newGrid

\* A completed chronon in which two goroutines wrote.
C10_Witness ==
    /\ strategy = "row" /\ AfterChronon
    /\ \E r1, r2 \in writes : r1.by # r2.by

\* --------------------------------------------------------------------- C11
\* The cells occupied when the running/last chronon began.
Occupied == {p \in Pos(Size) : gStart[p].typ # "nil"}

\* C11: in every chronon the rule is applied exactly once to every cell
\* occupied in the current grid: at no time has a cell been handed to the rule
\* twice or an empty cell at all, and when the chronon is complete every
\* occupied cell has been handed to it once (any N, any thread count, also
\* more threads than rows).
C11_EachOccupiedCellOnce ==
    /\ \A p \in Pos(Size) : visits[p] <= 1
    /\ \A p \in Pos(Size) : visits[p] = 1 => p \in Occupied
    /\ AfterChronon => \A p \in Occupied : visits[p] = 1

\* A completed chronon of the row-partition step on 3 rows and 2 threads (the
\* last thread takes the remainder) with an entity in the first and one in the
\* last row.
C11_Witness ==
    /\ AfterChronon /\ strategy = "row"
    /\ Size = 3 /\ threads = 2
    /\ \E p, q \in Occupied : p[1] = 0 /\ q[1] = 2 /\ visits[p] = 1 /\ visits[q] = 1

\* A completed chronon with more threads than rows.
C11_WitnessMoreThreadsThanRows ==
    /\ AfterChronon /\ strategy = "row"
    /\ threads > Size
    /\ \E p \in Occupied : visits[p] = 1

\* --------------------------------------------------------------------- C12
\* The rows of thread i.
Rows(i) == startRow(i) .. endRow(i) - 1

\* C12: the row ranges of threads 0 .. threads-1 are contiguous, pairwise
\* disjoint and cover exactly rows 0 .. N-1; every thread but the last has
\* N div threads rows and the last one takes the rest (also when threads does
\* not divide N or exceeds N); these are the ranges the goroutines are given.
C12_RowRangesPartitionRows ==
    strategy = "row" =>
        /\ startRow(0) = 0
        /\ endRow(threads - 1) = Size
        /\ \A i \in 0 .. threads - 1 : startRow(i) <= endRow(i)
        /\ \A i \in 0 .. threads - 2 :
             /\ endRow(i) = startRow(i + 1)
             /\ endRow(i) - startRow(i) = Size \div threads
        /\ \A i, j \in 0 .. threads - 1 : i # j => Rows(i) \cap Rows(j) = {}
        /\ UNION {Rows(i) : i \in 0 .. threads - 1} = 0 .. Size - 1
        /\ \A w \in DOMAIN wk : wk[w].start = startRow(w) /\ wk[w].end = endRow(w)

\* Goroutines launched on 3 rows with 2 threads: a remainder row for the last.
C12_Witness ==
    /\ strategy = "row" /\ wk # <<>>
    /\ Size = 3 /\ threads = 2
    /\ Rows(0) = {0} /\ Rows(1) = {1, 2}

\* Goroutines launched with more threads than rows: all rows go to the last.
C12_WitnessMoreThreadsThanRows ==
    /\ strategy = "row" /\ wk # <<>>
    /\ threads > Size
    /\ Rows(0) = {} /\ Rows(threads - 1) = 0 .. Size - 1

\* --------------------------------------------------------------------- C13
\* The shark goroutine of the message-passing step has returned.
WorkerDone == wg = 0 /\ wk[0].pc = "done"

\* C13: in the message-passing step, (a) while the driver waits in wg.Wait(),
\* the only time another goroutine runs, the next grid is not written;
\* (b) a queued move is taken from the queue and applied only when the worker
\* has signalled completion and the queue has been closed; (c) no move is
\* sent on the queue once it is closed.
C13_DriverAloneWritesAfterClose ==
    [][strategy = "msg" =>
         /\ mainpc = "wait" => newGrid' = newGrid
         /\ (moveChannel # <<>> /\ moveChannel' = Tail(moveChannel)) =>
                closed /\ WorkerDone /\ mainpc = "drain"
         /\ Len(sent') > Len(sent) => ~closed /\ ~closed' /\ ~WorkerDone]_vars

\* A completed chronon of the message-passing step in which two moves were
\* sent, queued and applied.
C13_Witness ==
    /\ strategy = "msg" /\ AfterChronon
    /\ Len(sent) >= 2
    /\ closed /\ moveChannel = <<>>

\* --------------------------------------------------------------------- C14
\* The cell a move targets and the messages sent to a cell.
TargetOf(m) == <<m.X, m.Y>>
SentTo(c) == {i \in 1 .. Len(sent) : TargetOf(sent[i]) = c}

\* The cell of the shark that emitted a message: the cell of the shark moved,
\* or the cell the offspring was born at.
OriginOf(m) ==
    CHOOSE p \in Pos(Size) :
        m.Entity.ptr \in {gStart[p].ptr,
                          IF InChronon THEN FreshPtr(p) ELSE BornAt(p)}

\* The greatest element of a non-empty set of numbers.
Greatest(S) == CHOOSE i \in S : \A j \in S : j <= i

\* C14: in the message-passing step the messages are emitted in the row-major
\* scan order of the sharks and applied in the order emitted (what is still
\* queued is the tail of what was sent); applying a move to an occupied cell
\* overwrites it: after the chronon a cell targeted by messages holds the
\* entity of the last message sent to it, and a shark where a fish of the fish
\* pass and a shark's move met.
C14_LastMessageWins ==
    strategy = "msg" =>
        /\ \A i, j \in 1 .. Len(sent) :
             i < j => Idx(OriginOf(sent[i])) <= Idx(OriginOf(sent[j]))
        /\ \E k \in 0 .. Len(sent) : moveChannel = SubSeq(sent, k + 1, Len(sent))
        /\ AfterChronon =>
             /\ \A c \in Pos(Size) :
                  SentTo(c) # {} => Cells[c] = sent[Greatest(SentTo(c))].Entity
             /\ \A r1, r2 \in writes :
                  (r1.at = r2.at /\ KindAt(r1.from) = "Fish" /\ KindAt(r2.from) = "Shark")
                      => Cells[r1.at].typ = "Shark"

\* A completed chronon in which a shark's move was applied to a cell the fish
\* pass had written a fish to.
C14_Witness ==
    /\ strategy = "msg" /\ AfterChronon
    /\ \E r1, r2 \in writes :
         /\ r1.at = r2.at
         /\ KindAt(r1.from) = "Fish" /\ KindAt(r2.from) = "Shark"
         /\ SentTo(r1.at) # {}

\* A completed chronon in which two messages targeted one cell.
C14_WitnessTwoMessages ==
    /\ strategy = "msg" /\ AfterChronon
    /\ \E c \in Pos(Size) : Cardinality(SentTo(c)) >= 2

\* --------------------------------------------------------------------- C15
\* Cells that held, when the chronon began, a shark with energy 1 or less.
Exhausted ==
    {p \in Occupied :
        /\ KindAt(p) = "Shark"
        /\ heapStart[ParentAt(p)].obj = "Shark"
        /\ heapStart[ParentAt(p)].Energy <= 1}

\* C15: a shark whose energy is 1 or less when the chronon begins starves
\* when the rule reaches it: it issues no move and no offspring, it does not
\* feed (its energy is one lower, not starveEnergy, and its breed counter is
\* untouched), also with a fish adjacent and with its breed counter one short
\* of sharkBreed; it is in no cell of the next grid, and a grid holding only
\* such sharks holds no shark (nothing at all) after the chronon.
C15_ExhaustedSharkStarves ==
    /\ \A p \in Exhausted :
         /\ ParentAt(p) \notin Live(newGrid)
         /\ \A r \in writes : r.from # p
         /\ \A i \in 1 .. Len(sent) : sent[i].Entity.ptr # ParentAt(p)
         /\ visits[p] = 1 =>
              /\ p \in starved
              /\ InChronon =>
                   /\ heap[ParentAt(p)].Energy = heapStart[ParentAt(p)].Energy - 1
                   /\ heap[ParentAt(p)].BreedCounter = heapStart[ParentAt(p)].BreedCounter
         /\ AfterChronon => ParentAt(p) \notin Live(Cells)
    /\ (AfterChronon /\ Exhausted = Occupied) =>
         CountSharks(Cells) = 0 /\ Total(Cells) = 0

\* A completed chronon in which a shark with energy 1, a fish adjacent and its
\* breed counter one short of sharkBreed has starved.
C15_Witness ==
    /\ AfterChronon
    /\ \E p \in Exhausted \cap starved :
         /\ heapStart[ParentAt(p)].Energy = 1
         /\ heapStart[ParentAt(p)].BreedCounter = sharkBreed - 1
         /\ \E i \in 1 .. 4 : gStart[Wrap(p, directions[i])].typ = "Fish"

\* A completed chronon on a grid that held only sharks with energy 1.
C15_WitnessOnlyExhausted ==
    /\ AfterChronon
    /\ Cardinality(Exhausted) = 2 /\ Exhausted = Occupied
    /\ CountSharks(Cells) = 0

\* --------------------------------------------------------------- C16, C17
\* The 4-neighbours of p (on the torus) and those holding a fish / nothing
\* when the chronon began.
Neighbours(p) == {Wrap(p, directions[i]) : i \in 1 .. 4}
FishNeighbours(p) == {q \in Neighbours(p) : gStart[q].typ = "Fish"}
EmptyNeighbours(p) == {q \in Neighbours(p) : gStart[q].typ = "nil"}

\* C16: the move of a surviving shark, judged on the current grid, targets a
\* neighbour holding a fish whenever there is one; otherwise an empty
\* neighbour whenever there is one; otherwise its own cell.  It never targets
\* an empty cell while a fish is adjacent, nor a cell holding another shark.
C16_SharkTargetsFishThenEmpty ==
    \A r \in Moves :
        KindAt(r.from) = "Shark" =>
            /\ r.at \in (IF FishNeighbours(r.from) # {} THEN FishNeighbours(r.from)
                         ELSE IF EmptyNeighbours(r.from) # {} THEN EmptyNeighbours(r.from)
                         ELSE {r.from})
            /\ FishNeighbours(r.from) # {} => gStart[r.at].typ # "nil"
            /\ gStart[r.at].typ = "Shark" => r.at = r.from

\* A shark with a fish and an empty cell among its neighbours has moved onto
\* the fish.
C16_Witness ==
    \E r \in Moves :
        /\ KindAt(r.from) = "Shark"
        /\ FishNeighbours(r.from) # {} /\ EmptyNeighbours(r.from) # {}
        /\ gStart[r.at].typ = "Fish"

\* A shark without a fish neighbour has moved to an empty neighbour; a shark
\* without fish or empty neighbours has stayed.
C16_WitnessEmpty ==
    \E r \in Moves :
        KindAt(r.from) = "Shark" /\ FishNeighbours(r.from) = {} /\ r.at # r.from
C16_WitnessStay ==
    \E r \in Moves :
        KindAt(r.from) = "Shark" /\ r.at = r.from

\* C17: the move of a fish targets a neighbour that is empty in the current
\* grid whenever there is one, and its own cell only when every neighbour is
\* occupied in the current grid; it never targets a cell the current grid has
\* another entity in.
C17_FishTargetsEmptyNeighbour ==
    \A r \in Moves :
        KindAt(r.from) = "Fish" =>
            /\ r.at \in (IF EmptyNeighbours(r.from) # {} THEN EmptyNeighbours(r.from)
                         ELSE {r.from})
            /\ r.at = r.from <=> EmptyNeighbours(r.from) = {}
            /\ gStart[r.at].typ # "nil" => r.at = r.from

\* A fish with an occupied and an empty neighbour has moved to the empty one.
C17_Witness ==
    \E r \in Moves :
        /\ KindAt(r.from) = "Fish"
        /\ Neighbours(r.from) \ EmptyNeighbours(r.from) # {}
        /\ r.at \in EmptyNeighbours(r.from)

\* A fish whose neighbours are all occupied has stayed.
C17_WitnessStay ==
    \E r \in Moves :
        KindAt(r.from) = "Fish" /\ EmptyNeighbours(r.from) = {} /\ r.at = r.from

\* --------------------------------------------------------------------- C18
\* The breed age that applies to the entity at p.
BreedAge(p) == IF KindAt(p) = "Fish" THEN fishBreed ELSE sharkBreed

\* The rule has been applied to every cell and the swap is still to come.
Computed ==
    \/ strategy = "row" /\ mainpc = "wait" /\ wg = 0
    \/ strategy = "msg" /\ mainpc = "drain"

\* The entity at p has issued its move / its offspring.
HasMoved(p) == \E r \in Moves : r.from = p
HasBred(p) == \E r \in Births : r.from = p

\* C18: every fish, and every shark that does not starve, gets its breed
\* counter incremented by exactly 1 in the chronon, whether or not it moves;
\* if the incremented value is below its breed age the counter keeps that
\* value and no offspring is issued; if it has reached the breed age an
\* offspring of its kind is issued for the origin cell with breed counter 0
\* (a shark offspring with energy starveEnergy) and the parent's counter
\* becomes 0.
C18_BreedCounterStepsOrResets ==
    InChronon =>
        \A p \in Occupied :
            LET e == ParentAt(p)
                inc == heapStart[e].BreedCounter + 1
                n == FreshPtr(p)
            IN  /\ HasBred(p) => HasMoved(p) /\ inc >= BreedAge(p)
                /\ (HasMoved(p) /\ ~HasBred(p)) => heap[e].BreedCounter = inc
                /\ HasBred(p) =>
                     /\ heap[e].BreedCounter = 0
                     /\ n \in DOMAIN heap
                     /\ heap[n].obj = KindAt(p)
                     /\ heap[n].BreedCounter = 0
                     /\ KindAt(p) = "Shark" => heap[n].Energy = starveEnergy
                     /\ \A r \in Births : r.from = p => r.at = p
                /\ Computed =>
                     /\ (KindAt(p) = "Fish" \/ p \notin starved) => HasMoved(p)
                     /\ HasMoved(p) => (HasBred(p) <=> inc >= BreedAge(p))

\* Every rule of a chronon applied: a shark reproduced and a fish did not.
C18_Witness ==
    /\ InChronon /\ Computed
    /\ \E p, q \in Occupied :
         /\ KindAt(p) = "Shark" /\ HasBred(p)
         /\ KindAt(q) = "Fish" /\ HasMoved(q) /\ ~HasBred(q)

\* An entity that could not move has its counter incremented all the same.
C18_WitnessStayed ==
    /\ InChronon /\ Computed
    /\ \E r \in Moves :
         /\ r.at = r.from /\ ~HasBred(r.from)
         /\ heap[ParentAt(r.from)].BreedCounter =
              heapStart[ParentAt(r.from)].BreedCounter + 1

\* --------------------------------------------------------------------- C19
\* The scenario of C19: a 3x3 grid holding a single fish at (1,1), fishBreed 1
\* and one worker.
C19_Scenario ==
    /\ Size = 3 /\ threads = 1 /\ fishBreed = 1
    /\ Occupied = {<<1, 1>>}
    /\ KindAt(<<1, 1>>) = "Fish"

\* C19: in that scenario, after the chronon the original fish is at one of the
\* four neighbours of (1,1) with breed counter 0, a new fish with breed
\* counter 0 is at (1,1), every other cell is empty and there are two fish.
C19_LoneFishMovesAndBreeds ==
    (AfterChronon /\ C19_Scenario) =>
        \E q \in Neighbours(<<1, 1>>) :
            /\ q # <<1, 1>>
            /\ Cells[q] = gStart[<<1, 1>>]
            /\ heap[Cells[q].ptr].BreedCounter = 0
            /\ Cells[<<1, 1>>] = [typ |-> "Fish", ptr |-> BornAt(<<1, 1>>)]
            /\ heap[BornAt(<<1, 1>>)] = NewFish
            /\ \A c \in Pos(Size) \ {q, <<1, 1>>} : Cells[c] = Nil
            /\ CountFish(Cells) = 2 /\ CountSharks(Cells) = 0

\* The scenario run by the row-partition step, the fish having gone north.
C19_Witness ==
    /\ AfterChronon /\ C19_Scenario /\ strategy = "row"
    /\ Cells[<<0, 1>>] = gStart[<<1, 1>>]

\* --------------------------------------------------------------------- C20
\* C20: from the start of a chronon until the swap no cell of the current grid
\* changes what it holds: every step of a running chronon that is not the swap
\* leaves g.Cells as it was when the chronon began (so every scan reads that
\* occupancy, whatever the order of processing), and g.Cells changes only in
\* the swap, where it becomes the next grid.
C20_CurrentGridFixedUntilSwap ==
    [][/\ (InChronon /\ mainpc' # "idle") => (Cells' = Cells /\ Cells' = gStart')
       /\ Cells' # Cells => (InChronon /\ mainpc' = "idle" /\ Cells' = newGrid)]_vars

\* A chronon fully computed and not yet swapped: the next grid differs from
\* the current grid, which is still the grid the chronon began with.
C20_Witness ==
    /\ InChronon /\ Computed
    /\ Cardinality(writes) >= 2
    /\ newGrid # Cells
    /\ Cells = gStart

\* ------------------------------------------- the neighbourhood scan alone
\* The parts of the state a specification does not use.
NoEngine ==
    /\ fishBreed = 1 /\ sharkBreed = 1 /\ starveEnergy = 1
    /\ threads = 1 /\ strategy = "row" /\ stepCount = 0
    /\ Cells = NewGrid(Size) /\ heap = <<>> /\ newGrid = NewGrid(Size)
    /\ wk = <<>> /\ mainpc = "off" /\ wg = 0
    /\ moveChannel = <<>> /\ closed = FALSE /\ chronon = 0
    /\ gStart = Cells /\ heapStart = heap /\ writes = {} /\ starved = {}
    /\ visits = [p \in Pos(Size) |-> 0] /\ sent = <<>> /\ unfed = <<>>
NoSetup == numFish = 0 /\ numShark = 0 /\ placed = 0
NoProbe == cell = NoPos /\ scanned = <<>>
NoEarly == grid0 = <<>> /\ placer = <<>> /\ cursor = 0 /\ timesMoved = <<>>

\* findEmptyAdjacent / findNearestFish called on a cell (x, y) of a grid of
\* side N: any N, any cell.
InitWrap ==
    /\ Size \in 1 .. MaxWrapN
    /\ cell \in Pos(Size)
    /\ scanned = <<>>
    /\ NoEngine /\ NoSetup /\ NoEarly

\* One iteration of  for _, dir := range directions : newX, newY computed for
\* direction i (the shuffle decides which direction comes when).
ScanDirection(i) ==
    /\ cell # NoPos
    /\ i \notin DOMAIN scanned
    /\ scanned' = [j \in DOMAIN scanned \cup {i} |->
                     IF j = i THEN Wrap(cell, directions[i]) ELSE scanned[j]]
    /\ UNCHANGED <<engine, setup, early, cell>>

NextWrap == \E i \in 1 .. 4 : ScanDirection(i)

\* The neighbourhood scan of any cell of any grid.
SpecWrap == InitWrap /\ [][NextWrap]_vars

\* --------------------------------------------------------------------- C21
\* The toroidal North, South, West and East cell of (x, y), by cases: one row
\* up, one row down, one column left, one column right, the edge wrapping.
Torus(p, i) ==
    LET up(c) == IF c = 0 THEN Size - 1 ELSE c - 1
        down(c) == IF c = Size - 1 THEN 0 ELSE c + 1
    IN  IF i = 1 THEN <<up(p[1]), p[2]>>
        ELSE IF i = 2 THEN <<down(p[1]), p[2]>>
        ELSE IF i = 3 THEN <<p[1], up(p[2])>>
        ELSE <<p[1], down(p[2])>>

\* C21: for every N >= 1 and every cell (x, y) of the grid, each of the four
\* neighbour coordinates the scan computes lies in [0, N) on both axes and is
\* the toroidal North / South / West / East cell of (x, y): 0 - 1 wraps to
\* N-1 and (N-1) + 1 wraps to 0.
C21_NeighboursWrap ==
    \A i \in DOMAIN scanned :
        /\ scanned[i][1] \in 0 .. Size - 1
        /\ scanned[i][2] \in 0 .. Size - 1
        /\ scanned[i] = Torus(cell, i)

\* All four neighbours of the corner (0, N-1) computed, N >= 2: North wraps to
\* row N-1 and East to column 0.
C21_Witness ==
    /\ Size >= 2 /\ cell = <<0, Size - 1>>
    /\ DOMAIN scanned = 1 .. 4
    /\ scanned[1] = <<Size - 1, Size - 1>>
    /\ scanned[4] = <<0, 0>>

\* All four neighbours computed on the 1x1 grid: each is the cell itself.
C21_WitnessOneCell ==
    /\ Size = 1 /\ DOMAIN scanned = 1 .. 4
    /\ \A i \in 1 .. 4 : scanned[i] = <<0, 0>>

\* --------------------------------------------- Initialise (src/wat-or/main)
\* main up to the call of Initialise: grid := NewGrid(gridSize), any numFish
\* and numSharks.
InitSetup ==
    /\ Size \in 1 .. MaxN
    /\ numFish \in 0 .. MaxPlaced
    /\ numShark \in 0 .. MaxPlaced
    /\ placed = 0
    /\ fishBreed = 1 /\ sharkBreed = 1 /\ starveEnergy = 1
    /\ threads = 1 /\ strategy = "msg" /\ stepCount = MaxChronons
    /\ Cells = NewGrid(Size) /\ heap = <<>> /\ newGrid = NewGrid(Size)
    /\ wk = <<>> /\ mainpc = "init" /\ wg = 0
    /\ moveChannel = <<>> /\ closed = FALSE /\ chronon = 0
    /\ gStart = Cells /\ heapStart = heap /\ writes = {} /\ starved = {}
    /\ visits = [p \in Pos(Size) |-> 0] /\ sent = <<>> /\ unfed = <<>>
    /\ NoProbe /\ NoEarly

\* One call of addEntity from Initialise's loops, &Fish{} for the first numFish
\* calls and &Shark{Energy: 4} after them: the loop draws cells until it draws
\* an empty one and stores the entity there.  It returns only then: on a grid
\* without an empty cell it draws for ever.
addEntity ==
    /\ mainpc = "init"
    /\ placed < numFish + numShark
    /\ \E p \in Pos(Size) :
         /\ Cells[p] = Nil
         /\ Cells' = [Cells EXCEPT ![p] =
                        [typ |-> IF placed < numFish THEN "Fish" ELSE "Shark",
                         ptr |-> Idx(p) + 1]]
         /\ heap' = [i \in DOMAIN heap \cup {Idx(p) + 1} |->
                       IF i = Idx(p) + 1
                       THEN IF placed < numFish THEN NewFish
                            ELSE NewShark(InitialEnergy)
                       ELSE heap[i]]
    /\ placed' = placed + 1
    /\ UNCHANGED <<config, newGrid, wk, mainpc, wg, moveChannel, closed, chronon,
                   hist, unfed, numFish, numShark, probe, early>>

\* Initialise has returned: main enters its loop over the chronons.
Initialised ==
    /\ mainpc = "init"
    /\ placed = numFish + numShark
    /\ mainpc' = "idle"
    /\ gStart' = Cells
    /\ heapStart' = heap
    /\ unfed' = Unfed0(Cells, heap)
    /\ UNCHANGED <<config, Cells, heap, newGrid, wk, wg, moveChannel, closed,
                   chronon, writes, starved, visits, sent, aside>>

NextSetup == addEntity \/ Initialised

\* main from NewGrid to the first chronon.
SpecSetup == InitSetup /\ [][NextSetup]_vars

\* --------------------------------------------------------------------- C22
\* More entities asked for than the grid has cells.
Overfull == numFish + numShark > Size * Size

\* addEntity has been called and no cell is empty: it never returns.
Spinning ==
    /\ mainpc = "init"
    /\ placed < numFish + numShark
    /\ \A p \in Pos(Size) : Cells[p] # Nil

\* C22 (as claimed): a configuration with numFish + numShark > N*N is detected
\* before the first chronon and rejected: the initial placement ends with an
\* error outcome (it is never left drawing cells on a full grid) and no
\* chronon is run.
C22_OverfullIsRejected ==
    Overfull => (mainpc # "idle" /\ chronon = 0 /\ ~Spinning)

\* ----------------------------- the row-partition step on more than 3 rows
\* A grid and a thread count where some row is neither in a thread's range nor
\* next to it (on up to 3 rows every row is next to every other), the entities
\* as Initialise placed them.
InitBand == Boundary({BandN}, {BandThreads}, MaxChronons, TRUE) /\ strategy = "row"

NextBand ==
    \/ MoveEntitiesWithThreads
    \/ \E w \in 0 .. BandThreads - 1 : processFish(w)
    \/ \E w \in 0 .. BandThreads - 1 : processFishBreed(w)
    \/ \E w \in 0 .. BandThreads - 1 : processShark(w)
    \/ \E w \in 0 .. BandThreads - 1 : processSharkBreed(w)
    \/ \E w \in 0 .. BandThreads - 1 : StoreData(w)
    \/ SwapRow

SpecBand == InitBand /\ [][NextBand]_vars

\* --------------------------------------------------------------------- C23
\* The rows of goroutine w as launched, the row before the range and the row
\* after it (modulo N).
OwnRows(w) == wk[w].start .. wk[w].end - 1
RowBefore(w) == (wk[w].start - 1 + Size) % Size
RowAfter(w) == wk[w].end % Size

\* The first and the last row of the non-empty row ranges.
EdgeRows ==
    {wk[w].start : w \in {v \in DOMAIN wk : OwnRows(v) # {}}}
    \cup {wk[w].end - 1 : w \in {v \in DOMAIN wk : OwnRows(v) # {}}}

\* C23: in the row-partition step every write of a goroutine lands in a row of
\* its own range or in the row immediately before or after that range (modulo
\* N); so a cell of the next grid written by two different goroutines lies in
\* the first or the last row of some goroutine's range.
C23_WritesReachAdjacentRowsOnly ==
    strategy = "row" =>
        /\ \A r \in writes :
             r.at[1] \in OwnRows(r.by) \cup {RowBefore(r.by), RowAfter(r.by)}
        /\ \A r1, r2 \in writes :
             (r1.at = r2.at /\ r1.by # r2.by) => r1.at[1] \in EdgeRows

\* On 4 rows with ranges {0}, {1}, {2,3}: a goroutine has written into the row
\* before its range, the same cell has been written by another goroutine, and
\* a row exists that the first goroutine cannot reach.
C23_Witness ==
    /\ strategy = "row" /\ Size = 4 /\ threads = 3
    /\ \E r1, r2 \in writes :
         /\ r1.at = r2.at /\ r1.by # r2.by
         /\ r1.at[1] = RowBefore(r1.by)
         /\ r1.at[1] \notin OwnRows(r1.by)
         /\ (0 .. Size - 1) \ (OwnRows(r1.by) \cup {RowBefore(r1.by), RowAfter(r1.by)}) # {}

\* ------------------------------------------------- runs of several chronons
\* main's loop run for MaxSteps chronons on a small grid.
InitLong == Boundary({LongN}, 1 .. MaxThreads, MaxSteps, FALSE)

SpecLong == InitLong /\ [][Next]_vars

\* --------------------------------------------------------------------- C24
\* The cells main sees holding a shark between two chronons.
AtBoundary == mainpc = "idle"
SharkCells == {p \in Pos(Size) : Cells[p].typ = "Shark"}

Max2(a, b) == IF a >= b THEN a ELSE b

\* C24 (as claimed): a shark that does not feed loses exactly 1 energy per
\* chronon, so a shark that had energy e and has not fed since has been on the
\* grid for fewer than e chronons since; and no shark stays on the grid for
\* more than max(starveEnergy, initial energy) consecutive chronons without
\* feeding.
C24_UnfedSharkStarves ==
    AtBoundary =>
        \A p \in SharkCells :
            LET i == Cells[p].ptr
            IN  /\ heap[i].obj = "Shark" =>
                     /\ heap[i].Energy = unfed[i].e - unfed[i].n
                     /\ unfed[i].n < unfed[i].e
                /\ unfed[i].n <= Max2(starveEnergy, MaxEnergy)

\* --------------------------------------------------------------------- C25
\* No object is held by two cells of a grid.
OneCellEach(cells) ==
    \A p, q \in DOMAIN cells :
        (p # q /\ cells[p].ptr # 0) => cells[p].ptr # cells[q].ptr

\* C25: no entity is duplicated: after any number of chronons, under either
\* step and every interleaving of the goroutines, each entity (an original
\* object or an offspring, created once) is held by at most one cell of the
\* grid, and by at most one cell of the grid being built.
C25_NoEntityTwice == OneCellEach(Cells) /\ OneCellEach(newGrid)

\* After two or more chronons of the row-partition step with two goroutines:
\* a parent and its offspring are on the grid and two goroutines have stored
\* into one cell.
C25_Witness ==
    /\ AtBoundary /\ chronon >= 2
    /\ strategy = "row" /\ threads = 2
    /\ \E r \in Births :
         /\ Cells[r.at].ptr = BornAt(r.from)
         /\ ParentAt(r.from) \in Live(Cells)
    /\ \E r1, r2 \in writes : r1.at = r2.at /\ r1.by # r2.by

\* The same under the message-passing step, a move having overwritten another.
C25_WitnessMsg ==
    /\ AtBoundary /\ chronon >= 2
    /\ strategy = "msg"
    /\ Total(Cells) >= 2
    /\ \E r1, r2 \in writes : r1.at = r2.at /\ r1.from # r2.from

\* --------------------------------------------------------------------- C26
\* The breed age main applies to what a cell holds.
BreedAgeOf(c) == IF c.typ = "Fish" THEN fishBreed ELSE sharkBreed

\* C26 (as claimed): at every chronon boundary of a run from a grid filled by
\* Initialise, with positive breed ages and starveEnergy, every entity of the
\* grid has 0 <= BreedCounter < the breed age of its kind, and every shark has
\* 1 <= Energy <= max(starveEnergy, 4).
C26_CountersInRange ==
    AtBoundary =>
        \A p \in Pos(Size) :
            Cells[p].typ # "nil" =>
                /\ heap[Cells[p].ptr].BreedCounter >= 0
                /\ heap[Cells[p].ptr].BreedCounter < BreedAgeOf(Cells[p])
                /\ Cells[p].typ = "Shark" =>
                     \A en \in EnergyRead(Cells[p].ptr) :
                         1 <= en /\ en <= Max2(starveEnergy, InitialEnergy)

\* ------------------------- the first program (main.go of 2024-12-03)
\* Cell{Fish: nil, Shark: nil}; a pointer is a number, nil is 0.
NoCell == [Fish |-> 0, Shark |-> 0]

\* grid[x][y].Fish == nil && grid[x][y].Shark == nil
Unoccupied(g, p) == g[p].Fish = 0 /\ g[p].Shark = 0

\* The two placing goroutines, and what each has to place.
Placers == {"fish", "shark"}
Quota(k) == IF k = "fish" THEN numFish ELSE numShark

\* A goroutine whose loop  for i := 0; i < n; i++  has reached i: at its end it
\* returns and its deferred wg.Done() runs.
PlacerAt(k, i) ==
    [i |-> i, pc |-> IF i >= Quota(k) THEN "done" ELSE "pick", at |-> NoPos]

\* main up to wg.Wait() in initializeGridConcurrently(size, numFish, numShark),
\* numFish + numShark <= size*size: the grid made, both goroutines started.
InitFirst ==
    /\ Size \in 1 .. MaxN
    /\ numFish \in 0 .. MaxPlaced
    /\ numShark \in 0 .. MaxPlaced
    /\ numFish + numShark <= Size * Size
    /\ grid0 = [p \in Pos(Size) |-> NoCell]
    /\ placer = [k \in Placers |-> PlacerAt(k, 0)]
    /\ cursor = 0
    /\ timesMoved = [i \in 1 .. numFish |-> 0]
    /\ placed = 0
    /\ fishBreed = 1 /\ sharkBreed = 1 /\ starveEnergy = 1
    /\ threads = 1 /\ strategy = "first" /\ stepCount = 0
    /\ Cells = NewGrid(Size) /\ heap = <<>> /\ newGrid = NewGrid(Size)
    /\ wk = <<>> /\ mainpc = "wait"
    /\ wg = Cardinality({k \in Placers : Quota(k) > 0})
    /\ moveChannel = <<>> /\ closed = FALSE /\ chronon = 0
    /\ gStart = Cells /\ heapStart = heap /\ writes = {} /\ starved = {}
    /\ visits = [p \in Pos(Size) |-> 0] /\ sent = <<>> /\ unfed = <<>>
    /\ NoProbe

\* The pointer of the i-th fish / shark allocated (i from 0).
PtrOf(k, i) == IF k = "fish" THEN i + 1 ELSE numFish + i + 1

\* Goroutine k draws x, y := r.Intn(size), r.Intn(size) until the cell it
\* draws passes the test  grid[x][y].Fish == nil && grid[x][y].Shark == nil.
pickCell(k) ==
    /\ strategy = "first"
    /\ mainpc = "wait"
    /\ placer[k].pc = "pick"
    /\ \E p \in Pos(Size) :
         /\ Unoccupied(grid0, p)
         /\ placer' = [placer EXCEPT ![k].pc = "store", ![k].at = p]
    /\ UNCHANGED <<engine, setup, probe, grid0, cursor, timesMoved>>

\* Goroutine k stores into the cell that passed its test:
\* grid[x][y].Fish = &Fish{...} or grid[x][y].Shark = &Shark{...}; break; i++.
\* Nothing orders the test and the store against the other goroutine.
storeEntity(k) ==
    /\ strategy = "first"
    /\ mainpc = "wait"
    /\ placer[k].pc = "store"
    /\ grid0' = IF k = "fish"
                THEN [grid0 EXCEPT ![placer[k].at].Fish = PtrOf(k, placer[k].i)]
                ELSE [grid0 EXCEPT ![placer[k].at].Shark = PtrOf(k, placer[k].i)]
    /\ placer' = [placer EXCEPT ![k] = PlacerAt(k, placer[k].i + 1)]
    /\ wg' = IF placer[k].i + 1 >= Quota(k) THEN wg - 1 ELSE wg
    /\ UNCHANGED <<config, Cells, heap, newGrid, wk, mainpc, moveChannel, closed,
                   chronon, hist, unfed, setup, probe, cursor, timesMoved>>

\* Both goroutines draw from the one rand.Rand r, which is not safe for
\* concurrent use: while both are drawing, a draw can panic on an index out of
\* range inside the generator, which ends the program.
randPanics ==
    /\ strategy = "first"
    /\ mainpc = "wait"
    /\ \A k \in Placers : placer[k].pc = "pick"
    /\ mainpc' = "panic"
    /\ UNCHANGED <<config, Cells, heap, newGrid, wk, wg, moveChannel, closed,
                   chronon, hist, unfed, aside>>

\* updateFish's loops skip the cells without a fish: the first cell at or
\* after i, in row-major order, with grid[x][y].Fish != nil, else size*size.
NextFishCell(g, i) ==
    IF \E j \in i .. Size * Size - 1 : g[PosOf(j)].Fish # 0
    THEN CHOOSE j \in i .. Size * Size - 1 :
            /\ g[PosOf(j)].Fish # 0
            /\ \A k \in i .. j - 1 : g[PosOf(k)].Fish = 0
    ELSE Size * Size

\* wg.Wait() returns, initializeGridConcurrently returns the grid and main
\* calls updateFish(grid).
initializeGridConcurrently ==
    /\ strategy = "first"
    /\ mainpc = "wait"
    /\ wg = 0
    /\ mainpc' = "update"
    /\ cursor' = NextFishCell(grid0, 0)
    /\ UNCHANGED <<config, Cells, heap, newGrid, wk, wg, moveChannel, closed,
                   chronon, hist, unfed, setup, probe, grid0, placer, timesMoved>>

\* moveFish: the unoccupied cells among the four neighbours of (x, y).
validMoves(g, p) == {q \in {Wrap(p, directions[i]) : i \in 1 .. 4} : Unoccupied(g, q)}

\* One iteration of updateFish's loops on a cell holding a fish:
\* moveFish(grid, x, y) moves the fish, in the grid being scanned, to one of
\* its valid moves if there is any; the loops go on from the next cell.
updateFish ==
    /\ strategy = "first"
    /\ mainpc = "update"
    /\ cursor < Size * Size
    /\ LET p == PosOf(cursor)
           f == grid0[p].Fish
       IN  IF validMoves(grid0, p) = {}
           THEN /\ cursor' = NextFishCell(grid0, cursor + 1)
                /\ UNCHANGED <<grid0, timesMoved>>
           ELSE \E q \in validMoves(grid0, p) :
                  /\ grid0' = [grid0 EXCEPT ![q].Fish = f, ![p].Fish = 0]
                  /\ cursor' = NextFishCell(grid0', cursor + 1)
                  /\ timesMoved' = [timesMoved EXCEPT ![f] = @ + 1]
    /\ UNCHANGED <<engine, setup, probe, placer>>

\* updateFish returns.
updateFishDone ==
    /\ strategy = "first"
    /\ mainpc = "update"
    /\ cursor >= Size * Size
    /\ mainpc' = "end"
    /\ UNCHANGED <<config, Cells, heap, newGrid, wk, wg, moveChannel, closed,
                   chronon, hist, unfed, aside>>

NextFirst ==
    \/ \E k \in Placers : pickCell(k)
    \/ \E k \in Placers : storeEntity(k)
    \/ randPanics
    \/ initializeGridConcurrently
    \/ updateFish
    \/ updateFishDone

\* The first program: concurrent placement, then one pass of updateFish.
SpecFirst == InitFirst /\ [][NextFirst]_vars

\* --------------------------------------------------------------------- C27
\* Both goroutines have returned and wg.Wait() is about to: the grid is the one
\* initializeGridConcurrently returns.
Returned == strategy = "first" /\ mainpc = "wait" /\ wg = 0

FishCells == {p \in Pos(Size) : grid0[p].Fish # 0}
SharkCellsFirst == {p \in Pos(Size) : grid0[p].Shark # 0}

\* C27 (as claimed): after initializeGridConcurrently(size, numFish, numShark)
\* with numFish + numShark <= size*size, under every interleaving of the two
\* goroutines, no cell holds both a fish and a shark and the grid holds
\* exactly numFish fish and numShark sharks.
C27_OneKindPerCell ==
    Returned =>
        /\ FishCells \cap SharkCellsFirst = {}
        /\ Cardinality(FishCells) = numFish
        /\ Cardinality(SharkCellsFirst) = numShark

\* --------------------------------------------------------------------- C28
\* C28 (as claimed): in one pass of updateFish no fish is moved more than
\* once, the number of fish is unchanged, and no fish is placed on a cell that
\* holds a fish or a shark (a cell holding both holds a fish that has not
\* moved).
C28_EachFishMovesOnce ==
    (strategy = "first" /\ mainpc \in {"update", "end"}) =>
        /\ \A i \in DOMAIN timesMoved : timesMoved[i] <= 1
        /\ Cardinality(FishCells) = numFish
        /\ \A p \in FishCells \cap SharkCellsFirst : timesMoved[grid0[p].Fish] = 0

=============================================================================
